---- MODULE Spec2Model ----
(***************************************************************************)
(* Model of fantasia/src/embedder.py: SequenceEmbedder.enqueue, process    *)
(* and store_entry.                                                        *)
(***************************************************************************)
EXTENDS Integers, Sequences, FiniteSets, TLC

(***************************************************************************)
(* Bounds and input universes                                              *)
(***************************************************************************)
MaxRecords == 2            \* longest record list handed to store_entry
MaxFasta == 3              \* most records in the input FASTA file
MaxLengthFilter == 2       \* largest length_filter configured
MaxPackage == 2            \* largest sequence_queue_package configured
MaxBatch == 2              \* longest batch handed to process

Workers == {1, 2}          \* worker processes that may call store_entry
Accessions == {"P1", "P2"}
Types == {1, 2}            \* embedding_type_id values
Embeddings == {"e1", "e2"} \* abstract embedding tensors

\* the shape of an abstract tensor (record['shape'] as the routine derives it)
ShapeOf(e) == IF e = "e1" THEN 1024 ELSE 1280

\* an embedding record: {accession, embedding_type_id, embedding, shape}
Rec(a, t, e) == [accession |-> a, embedding_type_id |-> t, embedding |-> e, shape |-> ShapeOf(e)]

\* the records handed to store_entry: two tensors for one key, a second type of
\* the same accession, and a second accession
Records == { Rec("P1", 1, "e1"), Rec("P1", 1, "e2"), Rec("P1", 2, "e2"), Rec("P2", 1, "e1") }

RECURSIVE SeqsUpTo(_, _)
SeqsUpTo(S, n) ==
  IF n = 0 THEN { <<>> }
  ELSE LET shorter == SeqsUpTo(S, n - 1)
       IN shorter \cup { Append(s, x) : s \in { q \in shorter : Len(q) = n - 1 }, x \in S }

RecordLists == SeqsUpTo(Records, MaxRecords)

(***************************************************************************)
(* The HDF5 file: root -> accession group -> type group -> dataset/attrs   *)
(***************************************************************************)
AccessionGroupName(accession) == <<"accession", accession>>   \* f"accession_{accession}"
TypeGroupName(embedding_type_id) == <<"type", embedding_type_id>> \* f"type_{embedding_type_id}"

EmptyFile == <<>>                                  \* no groups under the root
EmptyAccessionGroup == <<>>                        \* no type groups
EmptyTypeGroup == [datasets |-> <<>>, attrs |-> <<>>]

\* h5py Group.require_group on the root: open the group, creating it if absent
RequireAccessionGroup(file, accession) ==
  IF AccessionGroupName(accession) \in DOMAIN file THEN file
  ELSE file @@ (AccessionGroupName(accession) :> EmptyAccessionGroup)

\* h5py Group.require_group on the accession group
RequireTypeGroup(file, accession, embedding_type_id) ==
  LET an == AccessionGroupName(accession)
      tn == TypeGroupName(embedding_type_id)
  IN IF tn \in DOMAIN file[an] THEN file
     ELSE [file EXCEPT ![an] = @ @@ (tn :> EmptyTypeGroup)]

TypeGroup(file, accession, embedding_type_id) ==
  file[AccessionGroupName(accession)][TypeGroupName(embedding_type_id)]

\* variant: the accession group is searched for an embedding of any type
HasEmbeddingAnyType(file, accession, embedding_type_id) ==
  \E tn \in DOMAIN file[AccessionGroupName(accession)] :
    "embedding" \in DOMAIN file[AccessionGroupName(accession)][tn].datasets

\* "embedding" in type_group
HasEmbedding(file, accession, embedding_type_id) ==
  "embedding" \in DOMAIN TypeGroup(file, accession, embedding_type_id).datasets

\* type_group.create_dataset("embedding", data=...): the dataset as written
CreateDataset(file, accession, embedding_type_id, data) ==
  [file EXCEPT ![AccessionGroupName(accession)][TypeGroupName(embedding_type_id)].datasets =
     @ @@ ("embedding" :> data)]

\* type_group.attrs['shape'] = ...: creates or replaces the attribute
SetShapeAttr(file, accession, embedding_type_id, shape) ==
  [file EXCEPT ![AccessionGroupName(accession)][TypeGroupName(embedding_type_id)].attrs =
     ("shape" :> shape) @@ @]

(***************************************************************************)
(* State                                                                   *)
(***************************************************************************)
VARIABLES
  dirExists,   \* os.path.exists(output_dir)
  h5file,      \* content of the output HDF5 file
  pc,          \* per worker: position inside store_entry
  results,     \* per worker: the `results` argument of the running call
  idx,         \* per worker: position of `record` in results
  stored,      \* per worker: keys logged "Stored embedding ..." by this call
  skipped,     \* per worker: keys logged "... already exists ... Skipping."
  again,       \* per worker: this call repeats the previous, completed call
  conf,        \* self.conf with the attributes __init__ copies from it
  cdhitInPath, \* whether shutil.which("cd-hit") finds the binary
  redundancyFile, \* content of conf['redundancy_file'], None while it does not exist
  cdhitInvoked,   \* os.system("cd-hit ...") has been called
  fastaRead,   \* SeqIO.parse has been called on input_fasta
  inputRead,   \* the records of the file SeqIO.parse was called on
  sequences,   \* enqueue's local list `sequences`
  epc,         \* position inside enqueue
  mi,          \* position of model_id in conf['embedding']['types']
  bi,          \* position of batch in sequence_batches
  published,   \* the (batch, model_id) pairs publish_task has accepted, in order
  eraised,     \* the exception enqueue re-raised, None otherwise
  task_data,   \* the batch process was called with
  model_instances, \* the embedding_type_ids with a loaded model and tokenizer
  batch_sizes, \* the embedding_type_ids conf['embedding']['batch_size'] has
  ppc,         \* position inside process
  resolved,    \* model, tokenizer and module have been looked up
  inferenceCalls, \* calls of module.embedding_task so far
  embedding_records, \* what module.embedding_task returned
  returned,    \* the list process returned, None otherwise
  praised,     \* the exception process re-raised, None otherwise
  taken,       \* positions in `published` of the batches a worker has taken
  listA,       \* a record list handed to store_entry
  listB,       \* another record list handed to store_entry
  fileAB,      \* an output file that receives listA, then listB
  fileBA,      \* a copy of that file that receives listB, then listA
  opc          \* how far the two files have been written

storeVars == <<dirExists, h5file, pc, results, idx, stored, skipped, again>>
enqVars == <<conf, cdhitInPath, redundancyFile, cdhitInvoked, fastaRead, inputRead,
             sequences, epc, mi, bi, published, eraised>>
procVars == <<task_data, model_instances, batch_sizes, ppc, resolved, inferenceCalls,
              embedding_records, returned, praised>>
pipeVars == <<taken>>
orderVars == <<listA, listB, fileAB, fileBA, opc>>
vars == <<storeVars, enqVars, procVars, pipeVars, orderVars>>

Key(record) == <<record.accession, record.embedding_type_id>>
Record(w) == results[w][idx[w]]

InCall == {"dir", "makedirs", "open", "acc", "type", "check", "create", "attrs"}

InitStore ==
  /\ dirExists \in BOOLEAN
  /\ h5file = EmptyFile
  /\ pc = [w \in Workers |-> "idle"]
  /\ results = [w \in Workers |-> <<>>]
  /\ idx = [w \in Workers |-> 1]
  /\ stored = [w \in Workers |-> <<>>]
  /\ skipped = [w \in Workers |-> <<>>]
  /\ again = [w \in Workers |-> FALSE]

\* the for loop header at position i: next record, or leave the with block
LoopPc(w, i) == IF i > Len(results[w]) THEN "done" ELSE "acc"

\* a caller invokes store_entry(R)
StoreEntry(w, R) ==
  /\ pc[w] = "idle"
  /\ pc' = [pc EXCEPT ![w] = "dir"]
  /\ results' = [results EXCEPT ![w] = R]
  /\ idx' = [idx EXCEPT ![w] = 1]
  /\ stored' = [stored EXCEPT ![w] = <<>>]
  /\ skipped' = [skipped EXCEPT ![w] = <<>>]
  /\ again' = [again EXCEPT ![w] = FALSE]
  /\ UNCHANGED <<dirExists, h5file>>

\* a caller invokes store_entry again with the list of the call that just returned
StoreEntryAgain(w) ==
  /\ pc[w] = "done"
  /\ pc' = [pc EXCEPT ![w] = "dir"]
  /\ idx' = [idx EXCEPT ![w] = 1]
  /\ stored' = [stored EXCEPT ![w] = <<>>]
  /\ skipped' = [skipped EXCEPT ![w] = <<>>]
  /\ again' = [again EXCEPT ![w] = TRUE]
  /\ UNCHANGED <<dirExists, h5file, results>>

\* the call is over (it returned, or raised): its arguments and locals are gone
Return(w) ==
  /\ pc[w] \in {"done", "error"}
  /\ pc' = [pc EXCEPT ![w] = "idle"]
  /\ results' = [results EXCEPT ![w] = <<>>]
  /\ idx' = [idx EXCEPT ![w] = 1]
  /\ stored' = [stored EXCEPT ![w] = <<>>]
  /\ skipped' = [skipped EXCEPT ![w] = <<>>]
  /\ again' = [again EXCEPT ![w] = FALSE]
  /\ UNCHANGED <<dirExists, h5file>>

\* if not os.path.exists(output_dir)
CheckDir(w) ==
  /\ pc[w] = "dir"
  /\ pc' = [pc EXCEPT ![w] = IF dirExists THEN "open" ELSE "makedirs"]
  /\ UNCHANGED <<dirExists, h5file, results, idx, stored, skipped, again>>

\* os.makedirs(output_dir): FileExistsError when the directory appeared meanwhile
MakeDirs(w) ==
  /\ pc[w] = "makedirs"
  /\ IF dirExists
       THEN /\ pc' = [pc EXCEPT ![w] = "error"]
            /\ UNCHANGED dirExists
       ELSE /\ pc' = [pc EXCEPT ![w] = "open"]
            /\ dirExists' = TRUE
  /\ UNCHANGED <<h5file, results, idx, stored, skipped, again>>

\* variant: the file opened in mode "w", which truncates it
OpenFileTruncate(w) ==
  /\ pc[w] = "open"
  /\ pc' = [pc EXCEPT ![w] = IF 1 > Len(results[w]) THEN "done" ELSE "acc"]
  /\ h5file' = EmptyFile
  /\ UNCHANGED <<dirExists, results, idx, stored, skipped, again>>

\* with h5py.File(output_h5, "a") as h5file: the file is kept, or created empty
OpenFile(w) ==
  /\ pc[w] = "open"
  /\ pc' = [pc EXCEPT ![w] = LoopPc(w, 1)]
  /\ UNCHANGED <<dirExists, h5file, results, idx, stored, skipped, again>>

\* accession_group = h5file.require_group(f"accession_{accession}")
RequireAccession(w) ==
  /\ pc[w] = "acc"
  /\ h5file' = RequireAccessionGroup(h5file, Record(w).accession)
  /\ pc' = [pc EXCEPT ![w] = "type"]
  /\ UNCHANGED <<dirExists, results, idx, stored, skipped, again>>

\* type_group = accession_group.require_group(f"type_{embedding_type_id}")
RequireType(w) ==
  /\ pc[w] = "type"
  /\ h5file' = RequireTypeGroup(h5file, Record(w).accession, Record(w).embedding_type_id)
  /\ pc' = [pc EXCEPT ![w] = "check"]
  /\ UNCHANGED <<dirExists, results, idx, stored, skipped, again>>

\* variant: the shape attribute assigned before the existence check
CheckExistingWritesShape(w) ==
  /\ pc[w] = "check"
  /\ IF "embedding" \in DOMAIN TypeGroup(h5file, results[w][idx[w]].accession,
                                         results[w][idx[w]].embedding_type_id).datasets
       THEN /\ skipped' = [skipped EXCEPT ![w] = Append(@, Key(results[w][idx[w]]))]
            /\ idx' = [idx EXCEPT ![w] = @ + 1]
            /\ pc' = [pc EXCEPT ![w] = IF idx[w] + 1 > Len(results[w]) THEN "done" ELSE "acc"]
            /\ h5file' = SetShapeAttr(h5file, results[w][idx[w]].accession,
                                      results[w][idx[w]].embedding_type_id,
                                      results[w][idx[w]].shape)
       ELSE /\ pc' = [pc EXCEPT ![w] = "create"]
            /\ UNCHANGED <<skipped, idx, h5file>>
  /\ UNCHANGED <<dirExists, results, stored, again>>

\* if "embedding" in type_group: warn and continue
CheckExisting(w) ==
  /\ pc[w] = "check"
  /\ IF HasEmbedding(h5file, Record(w).accession, Record(w).embedding_type_id)
       THEN /\ skipped' = [skipped EXCEPT ![w] = Append(@, Key(Record(w)))]
            /\ idx' = [idx EXCEPT ![w] = @ + 1]
            /\ pc' = [pc EXCEPT ![w] = LoopPc(w, idx[w] + 1)]
       ELSE /\ pc' = [pc EXCEPT ![w] = "create"]
            /\ UNCHANGED <<skipped, idx>>
  /\ UNCHANGED <<dirExists, h5file, results, stored, again>>

\* type_group.create_dataset("embedding", data=record['embedding']);
\* h5py raises ValueError when the name already exists in the group
CreateEmbedding(w) ==
  /\ pc[w] = "create"
  /\ IF HasEmbedding(h5file, Record(w).accession, Record(w).embedding_type_id)
       THEN /\ pc' = [pc EXCEPT ![w] = "error"]
            /\ UNCHANGED h5file
       ELSE /\ h5file' = CreateDataset(h5file, Record(w).accession,
                                       Record(w).embedding_type_id, Record(w).embedding)
            /\ pc' = [pc EXCEPT ![w] = "attrs"]
  /\ UNCHANGED <<dirExists, results, idx, stored, skipped, again>>

\* type_group.attrs['shape'] = record['shape'], then the info log
SetShape(w) ==
  /\ pc[w] = "attrs"
  /\ h5file' = SetShapeAttr(h5file, Record(w).accession,
                            Record(w).embedding_type_id, Record(w).shape)
  /\ stored' = [stored EXCEPT ![w] = Append(@, Key(Record(w)))]
  /\ idx' = [idx EXCEPT ![w] = @ + 1]
  /\ pc' = [pc EXCEPT ![w] = LoopPc(w, idx[w] + 1)]
  /\ UNCHANGED <<dirExists, results, skipped, again>>

\* variant: the error handler removes the output file
IOErrorRemovesFile(w) ==
  /\ pc[w] \in InCall \ {"dir"}
  /\ pc' = [pc EXCEPT ![w] = "error"]
  /\ h5file' = EmptyFile
  /\ UNCHANGED <<dirExists, results, idx, stored, skipped, again>>

\* an I/O error in the pending file-system or HDF5 call: the with block closes
\* the file, the except clause logs and re-raises
IOError(w) ==
  /\ pc[w] \in InCall \ {"dir"}
  /\ pc' = [pc EXCEPT ![w] = "error"]
  /\ UNCHANGED <<dirExists, h5file, results, idx, stored, skipped, again>>

\* no worker has taken a batch
InitPipelineIdle == taken = {}

\* no pair of lists is being compared
InitOrderIdle ==
  /\ listA = <<>>
  /\ listB = <<>>
  /\ fileAB = EmptyFile
  /\ fileBA = EmptyFile
  /\ opc = "idle"

(***************************************************************************)
(* enqueue                                                                 *)
(***************************************************************************)
\* Python's None and a present value v, as sets of at most one element
None == {}
Some(v) == {v}
Value(o) == CHOOSE v \in o : TRUE
\* truth value of `o` in a Python condition, for None and numbers
Truthy(o) == o # None /\ o # Some(0)

\* SeqRecord objects of the FASTA file: id and residues
FastaRecords ==
  { [id |-> "P1", seq |-> <<"M">>],
    [id |-> "P2", seq |-> <<"M", "K">>],
    [id |-> "P3", seq |-> <<"M", "K", "V">>] }

FastaFiles == SeqsUpTo(FastaRecords, MaxFasta)

\* self.types[model_id]['model_name'], as fetch_models_info loaded it
ModelName(model_id) == IF model_id = 1 THEN "esm" ELSE "prot_t5"

\* conf['embedding']['types']: the requested model ids, each once
TypeLists == { <<>>, <<1>>, <<1, 2>>, <<2, 1>> }

Confs ==
  [ fantasia_input_fasta : FastaFiles,
    length_filter : {None} \cup { Some(n) : n \in 0..MaxLengthFilter },
    redundancy_filter : {None, Some(0), Some(9)},
    types : TypeLists,
    sequence_queue_package : 1..MaxPackage ]

\* the order-preserving sub-lists of s: what cd-hit may keep of its input
RECURSIVE SubSeqs(_)
SubSeqs(s) ==
  IF s = <<>> THEN { <<>> }
  ELSE LET rest == SubSeqs(Tail(s))
       IN rest \cup { <<Head(s)>> \o r : r \in rest }

\* lines 121-124: the loop over SeqIO.parse(input_fasta), record by record
RECURSIVE ReadSequences(_, _)
ReadSequences(file, length_filter) ==
  IF file = <<>> THEN <<>>
  ELSE IF Truthy(length_filter) /\ Len(Head(file).seq) > Value(length_filter)
         THEN ReadSequences(Tail(file), length_filter)
         ELSE <<Head(file)>> \o ReadSequences(Tail(file), length_filter)

Min(a, b) == IF a < b THEN a ELSE b

\* range(0, len(sequences), sequence_queue_package), as 0-based start offsets
RangeStarts(n, step) == { i \in 0..(n - 1) : i % step = 0 }

\* variant: the last, shorter slice is left out
SequenceBatchesDropTail(seqs, package) ==
  LET starts == { i \in 0..(Len(seqs) - 1) : i % package = 0 /\ i + package <= Len(seqs) }
  IN [k \in 1..Cardinality(starts) |->
        SubSeq(seqs, (k - 1) * package + 1, Min(k * package, Len(seqs)))]

\* variant: the range runs one offset too far, to len(sequences) included
SequenceBatchesExtraSlice(seqs, package) ==
  LET starts == { i \in 0..Len(seqs) : i % package = 0 }
  IN [k \in 1..Cardinality(starts) |->
        SubSeq(seqs, (k - 1) * package + 1, Min(k * package, Len(seqs)))]

\* lines 129-130: [sequences[i:i + package] for i in range(0, len(sequences), package)]
SequenceBatches(seqs, package) ==
  LET starts == RangeStarts(Len(seqs), package)
  IN [k \in 1..Cardinality(starts) |->
        SubSeq(seqs, (k - 1) * package + 1, Min(k * package, Len(seqs)))]

\* variant: every item is labelled with the first requested model type
TaskDataTypeOfFirst(sequence, model_id) ==
  [sequence |-> sequence.seq, accession |-> sequence.id,
   model_name |-> ModelName(model_id), embedding_type_id |-> conf.types[1]]

\* lines 135-140: task_data for one sequence
TaskData(sequence, model_id) ==
  [sequence |-> sequence.seq, accession |-> sequence.id,
   model_name |-> ModelName(model_id), embedding_type_id |-> model_id]

\* lines 133-141: model_batches for one batch
ModelBatches(batch, model_id) == [i \in 1..Len(batch) |-> TaskData(batch[i], model_id)]

ModelId == conf.types[mi]
CurrentBatches == SequenceBatches(sequences, conf.sequence_queue_package)

\* enqueue has not been called
InitEnqueueIdle ==
  /\ conf = [fantasia_input_fasta |-> <<>>, length_filter |-> None,
             redundancy_filter |-> None, types |-> <<>>, sequence_queue_package |-> 1]
  /\ cdhitInPath = FALSE
  /\ redundancyFile = None
  /\ cdhitInvoked = FALSE
  /\ fastaRead = FALSE
  /\ inputRead = <<>>
  /\ sequences = <<>>
  /\ epc = "idle"
  /\ mi = 1
  /\ bi = 1
  /\ published = <<>>
  /\ eraised = None

\* enqueue() is entered, for any configuration and environment
InitEnqueue ==
  /\ conf \in Confs
  /\ cdhitInPath \in BOOLEAN
  /\ redundancyFile = None
  /\ cdhitInvoked = FALSE
  /\ fastaRead = FALSE
  /\ inputRead = <<>>
  /\ sequences = <<>>
  /\ epc = "start"
  /\ mi = 1
  /\ bi = 1
  /\ published = <<>>
  /\ eraised = None

\* the position of the loops of lines 127 and 132 at model m, batch b
BatchPc(m, b) ==
  IF m > Len(conf.types) THEN "done" ELSE "publish"

\* the model the loop of line 127 stops at from position m: with an empty
\* sequence_batches the inner loop of line 132 falls through for every model
FirstModel(m, seqs) ==
  IF SequenceBatches(seqs, conf.sequence_queue_package) = <<>>
    THEN Len(conf.types) + 1
    ELSE m

\* line 109: if self.conf.get('redundancy_filter')
CheckRedundancy ==
  /\ epc = "start"
  /\ epc' = IF Truthy(conf.redundancy_filter) THEN "which" ELSE "read"
  /\ UNCHANGED <<conf, cdhitInPath, redundancyFile, cdhitInvoked, fastaRead, inputRead,
                 sequences, mi, bi, published, eraised>>

\* variant: cd-hit is run without looking for the binary first
WhichCdHitOmitted ==
  /\ epc = "which"
  /\ epc' = "cdhit"
  /\ UNCHANGED <<conf, cdhitInPath, redundancyFile, cdhitInvoked, fastaRead, inputRead,
                 sequences, mi, bi, published, eraised>>

\* lines 112-113: shutil.which("cd-hit") is None raises EnvironmentError
WhichCdHit ==
  /\ epc = "which"
  /\ IF cdhitInPath
       THEN epc' = "cdhit" /\ UNCHANGED eraised
       ELSE epc' = "error" /\ eraised' = Some("EnvironmentError")
  /\ UNCHANGED <<conf, cdhitInPath, redundancyFile, cdhitInvoked, fastaRead, inputRead,
                 sequences, mi, bi, published>>

\* lines 115-118: os.system("cd-hit -i ... -o ... -c ..."), its exit status not
\* looked at: the tool writes a reduced file, or fails and writes none
RunCdHit ==
  /\ epc = "cdhit"
  /\ cdhitInvoked' = TRUE
  /\ \/ \E kept \in SubSeqs(conf.fantasia_input_fasta) : redundancyFile' = Some(kept)
     \/ redundancyFile' = redundancyFile
  /\ epc' = "read"
  /\ UNCHANGED <<conf, cdhitInPath, fastaRead, inputRead, sequences, mi, bi, published,
                 eraised>>

\* the file named by input_fasta: the reduced file when the filter is on
InputFasta ==
  IF Truthy(conf.redundancy_filter) THEN redundancyFile ELSE Some(conf.fantasia_input_fasta)

\* lines 121-124: parse input_fasta and keep the records that pass the length
\* filter; a file that does not exist raises FileNotFoundError
ReadFasta ==
  /\ epc = "read"
  /\ fastaRead' = TRUE
  /\ IF InputFasta = None
       THEN /\ epc' = "error"
            /\ eraised' = Some("FileNotFoundError")
            /\ UNCHANGED <<inputRead, sequences, mi>>
       ELSE /\ inputRead' = Value(InputFasta)
            /\ sequences' = ReadSequences(Value(InputFasta), conf.length_filter)
            /\ mi' = FirstModel(1, sequences')
            /\ epc' = BatchPc(mi', 1)
            /\ UNCHANGED eraised
  /\ UNCHANGED <<conf, cdhitInPath, redundancyFile, cdhitInvoked, bi, published>>

\* lines 132-145: build model_batches for the batch and publish it
PublishBatch ==
  /\ epc = "publish"
  /\ published' = Append(published,
                         [batch |-> ModelBatches(CurrentBatches[bi], ModelId),
                          model_id |-> ModelId])
  /\ IF bi < Len(CurrentBatches)
       THEN bi' = bi + 1 /\ UNCHANGED <<mi, epc>>
       ELSE bi' = 1 /\ mi' = mi + 1 /\ epc' = BatchPc(mi + 1, 1)
  /\ UNCHANGED <<conf, cdhitInPath, redundancyFile, cdhitInvoked, fastaRead, inputRead,
                 sequences, eraised>>

\* variant: a failed publish is logged and the loop goes on with the next batch
PublishErrorSkipsBatch ==
  /\ epc = "publish"
  /\ IF bi < Len(CurrentBatches)
       THEN bi' = bi + 1 /\ UNCHANGED <<mi, epc>>
       ELSE bi' = 1 /\ mi' = mi + 1 /\ epc' = BatchPc(mi + 1, 1)
  /\ UNCHANGED <<conf, cdhitInPath, redundancyFile, cdhitInvoked, fastaRead, inputRead,
                 sequences, published, eraised>>

\* publish_task raises: the except clause logs and re-raises
PublishError ==
  /\ epc = "publish"
  /\ epc' = "error"
  /\ eraised' = Some("PublishError")
  /\ UNCHANGED <<conf, cdhitInPath, redundancyFile, cdhitInvoked, fastaRead, inputRead,
                 sequences, mi, bi, published>>

NextEnqueue ==
  \/ CheckRedundancy /\ UNCHANGED <<storeVars, procVars, pipeVars, orderVars>>
  \/ WhichCdHit /\ UNCHANGED <<storeVars, procVars, pipeVars, orderVars>>
  \/ RunCdHit /\ UNCHANGED <<storeVars, procVars, pipeVars, orderVars>>
  \/ ReadFasta /\ UNCHANGED <<storeVars, procVars, pipeVars, orderVars>>
  \/ PublishBatch /\ UNCHANGED <<storeVars, procVars, pipeVars, orderVars>>
  \/ PublishError /\ UNCHANGED <<storeVars, procVars, pipeVars, orderVars>>


(***************************************************************************)
(* process                                                                 *)
(***************************************************************************)
\* the items a batch handed to process may hold
TaskItems ==
  { TaskData(r, m) : r \in { q \in FastaRecords : q.id \in Accessions }, m \in Types }

TaskBatches == SeqsUpTo(TaskItems, MaxBatch)

\* the records module.embedding_task may return: the routine is an external
\* collaborator, so their number and their metadata are its own choice
RoutineRecords == { Rec(a, t, "e1") : a \in Accessions, t \in Types }
RoutineOutputs(n) == SeqsUpTo(RoutineRecords, n + 1)

\* process has not been called
InitProcessIdle ==
  /\ task_data = <<>>
  /\ model_instances = {}
  /\ batch_sizes = {}
  /\ ppc = "idle"
  /\ resolved = FALSE
  /\ inferenceCalls = 0
  /\ embedding_records = <<>>
  /\ returned = None
  /\ praised = None

\* process(task_data) is entered, for any batch
InitProcess ==
  /\ task_data \in TaskBatches
  /\ model_instances \in { {1}, {1, 2} }
  /\ batch_sizes \in { {1}, {1, 2} }
  /\ ppc = "start"
  /\ resolved = FALSE
  /\ inferenceCalls = 0
  /\ embedding_records = <<>>
  /\ returned = None
  /\ praised = None

\* line 176: task_data[0]['embedding_type_id']
BatchTypeId == task_data[1].embedding_type_id

\* line 177: all(data['embedding_type_id'] == embedding_type_id for data in task_data)
AllSameType == \A i \in 1..Len(task_data) : task_data[i].embedding_type_id = BatchTypeId

\* variant: the records are returned as the routine labelled them
AttachMetadataOmitted(records, batch, embedding_type_id) == records

\* lines 201-203: for record, data in zip(embedding_records, task_data)
AttachMetadata(records, batch, embedding_type_id) ==
  [i \in 1..Len(records) |->
     IF i <= Len(batch)
       THEN [records[i] EXCEPT !.embedding_type_id = embedding_type_id,
                               !.accession = batch[i].accession]
       ELSE records[i]]

\* variant: an empty batch is not told apart
CheckEmptyOmitted ==
  /\ ppc = "start"
  /\ IF task_data = <<>>
       THEN /\ ppc' = "error"
            /\ praised' = Some("IndexError")
       ELSE /\ ppc' = "uniform"
            /\ UNCHANGED praised
  /\ UNCHANGED <<task_data, model_instances, batch_sizes, resolved, inferenceCalls,
                 embedding_records, returned>>

\* lines 171-173: if not task_data: warn and return []
CheckEmpty ==
  /\ ppc = "start"
  /\ IF task_data = <<>>
       THEN /\ returned' = Some(<<>>)
            /\ ppc' = "done"
       ELSE /\ ppc' = "uniform"
            /\ UNCHANGED returned
  /\ UNCHANGED <<task_data, model_instances, batch_sizes, resolved, inferenceCalls,
                 embedding_records, praised>>

\* variant: the batch is taken to be of the type of its first item
CheckUniformOmitted ==
  /\ ppc = "uniform"
  /\ ppc' = "resolve"
  /\ UNCHANGED <<task_data, model_instances, batch_sizes, resolved, inferenceCalls,
                 embedding_records, returned, praised>>

\* lines 176-178: a batch of mixed embedding_type_id raises ValueError
CheckUniform ==
  /\ ppc = "uniform"
  /\ IF AllSameType
       THEN /\ ppc' = "resolve"
            /\ UNCHANGED praised
       ELSE /\ ppc' = "error"
            /\ praised' = Some("ValueError")
  /\ UNCHANGED <<task_data, model_instances, batch_sizes, resolved, inferenceCalls,
                 embedding_records, returned>>

\* lines 181-183: model_instances, tokenizer_instances and types looked up by
\* embedding_type_id; a type with no loaded model raises KeyError
ResolveModel ==
  /\ ppc = "resolve"
  /\ IF BatchTypeId \in model_instances
       THEN /\ resolved' = TRUE
            /\ ppc' = "infer"
            /\ UNCHANGED praised
       ELSE /\ ppc' = "error"
            /\ praised' = Some("KeyError")
            /\ UNCHANGED resolved
  /\ UNCHANGED <<task_data, model_instances, batch_sizes, inferenceCalls,
                 embedding_records, returned>>

\* lines 186-198: module.embedding_task(sequence_info, model, tokenizer,
\* batch_size=self.batch_sizes[embedding_type_id], ...) returns its records;
\* a type with no configured batch size raises KeyError before the call
EmbeddingTask ==
  /\ ppc = "infer"
  /\ IF BatchTypeId \in batch_sizes
       THEN /\ inferenceCalls' = inferenceCalls + 1
            /\ \E recs \in RoutineOutputs(Len(task_data)) : embedding_records' = recs
            /\ ppc' = "attach"
            /\ UNCHANGED praised
       ELSE /\ ppc' = "error"
            /\ praised' = Some("KeyError")
            /\ UNCHANGED <<inferenceCalls, embedding_records>>
  /\ UNCHANGED <<task_data, model_instances, batch_sizes, resolved, returned>>

\* variant: a failed inference is tried once more
EmbeddingTaskErrorRetries ==
  /\ ppc = "infer"
  /\ BatchTypeId \in batch_sizes
  /\ inferenceCalls' = inferenceCalls + 1
  /\ IF inferenceCalls = 0
       THEN ppc' = "infer" /\ UNCHANGED praised
       ELSE ppc' = "error" /\ praised' = Some("InferenceError")
  /\ UNCHANGED <<task_data, model_instances, batch_sizes, resolved, embedding_records,
                 returned>>

\* module.embedding_task raises: the except clause logs and re-raises
EmbeddingTaskError ==
  /\ ppc = "infer"
  /\ BatchTypeId \in batch_sizes
  /\ inferenceCalls' = inferenceCalls + 1
  /\ ppc' = "error"
  /\ praised' = Some("InferenceError")
  /\ UNCHANGED <<task_data, model_instances, batch_sizes, resolved, embedding_records,
                 returned>>

\* lines 201-205: re-attach the metadata and return embedding_records
ReturnRecords ==
  /\ ppc = "attach"
  /\ returned' = Some(AttachMetadata(embedding_records, task_data, BatchTypeId))
  /\ ppc' = "done"
  /\ UNCHANGED <<task_data, model_instances, batch_sizes, resolved, inferenceCalls,
                 embedding_records, praised>>

NextProcess ==
  \/ CheckEmpty /\ UNCHANGED <<storeVars, enqVars, pipeVars, orderVars>>
  \/ CheckUniform /\ UNCHANGED <<storeVars, enqVars, pipeVars, orderVars>>
  \/ ResolveModel /\ UNCHANGED <<storeVars, enqVars, pipeVars, orderVars>>
  \/ EmbeddingTask /\ UNCHANGED <<storeVars, enqVars, pipeVars, orderVars>>
  \/ EmbeddingTaskError /\ UNCHANGED <<storeVars, enqVars, pipeVars, orderVars>>
  \/ ReturnRecords /\ UNCHANGED <<storeVars, enqVars, pipeVars, orderVars>>

\* process called in a fresh embedder
InitOfProcess ==
  InitStore /\ dirExists = TRUE /\ InitEnqueueIdle /\ InitProcess /\ InitPipelineIdle /\ InitOrderIdle

SpecProcess == InitOfProcess /\ [][NextProcess]_vars

\* enqueue called in a fresh embedder
InitOfEnqueue ==
  InitStore /\ dirExists = TRUE /\ InitEnqueue /\ InitProcessIdle /\ InitPipelineIdle /\ InitOrderIdle

SpecEnqueue == InitOfEnqueue /\ [][NextEnqueue]_vars

\* one worker, with I/O errors
NextStore ==
  \/ \E R \in RecordLists : StoreEntry(1, R) /\ UNCHANGED <<enqVars, procVars, pipeVars, orderVars>>
  \/ StoreEntryAgain(1) /\ UNCHANGED <<enqVars, procVars, pipeVars, orderVars>>
  \/ Return(1) /\ UNCHANGED <<enqVars, procVars, pipeVars, orderVars>>
  \/ CheckDir(1) /\ UNCHANGED <<enqVars, procVars, pipeVars, orderVars>>
  \/ MakeDirs(1) /\ UNCHANGED <<enqVars, procVars, pipeVars, orderVars>>
  \/ OpenFile(1) /\ UNCHANGED <<enqVars, procVars, pipeVars, orderVars>>
  \/ RequireAccession(1) /\ UNCHANGED <<enqVars, procVars, pipeVars, orderVars>>
  \/ RequireType(1) /\ UNCHANGED <<enqVars, procVars, pipeVars, orderVars>>
  \/ CheckExisting(1) /\ UNCHANGED <<enqVars, procVars, pipeVars, orderVars>>
  \/ CreateEmbedding(1) /\ UNCHANGED <<enqVars, procVars, pipeVars, orderVars>>
  \/ SetShape(1) /\ UNCHANGED <<enqVars, procVars, pipeVars, orderVars>>
  \/ IOError(1) /\ UNCHANGED <<enqVars, procVars, pipeVars, orderVars>>

\* store_entry called on an output file that does not exist yet
InitOfStore ==
  InitStore /\ InitEnqueueIdle /\ InitProcessIdle /\ InitPipelineIdle /\ InitOrderIdle

SpecStore == InitOfStore /\ [][NextStore]_vars

\* the worker holds the output file open (inside the with block)
HasFileOpen(w) == pc[w] \in {"acc", "type", "check", "create", "attrs"}

\* h5py.File(output_h5, "a") while another process holds the file open for
\* writing: with HDF5 file locking in force the open raises OSError (where it
\* is not, OpenFile applies)
OpenFileLocked(w) ==
  /\ pc[w] = "open"
  /\ \E other \in Workers \ {w} : HasFileOpen(other)
  /\ pc' = [pc EXCEPT ![w] = "error"]
  /\ UNCHANGED <<dirExists, h5file, results, idx, stored, skipped, again>>

\* the workers of the dispatcher run store_entry side by side, one call each,
\* each HDF5 call taking effect at once; store_entry itself takes no lock
NextConcurrent ==
  \/ \E w \in Workers, R \in RecordLists : StoreEntry(w, R) /\ UNCHANGED <<enqVars, procVars, pipeVars, orderVars>>
  \/ \E w \in Workers : CheckDir(w) /\ UNCHANGED <<enqVars, procVars, pipeVars, orderVars>>
  \/ \E w \in Workers : MakeDirs(w) /\ UNCHANGED <<enqVars, procVars, pipeVars, orderVars>>
  \/ \E w \in Workers : OpenFile(w) /\ UNCHANGED <<enqVars, procVars, pipeVars, orderVars>>
  \/ \E w \in Workers : OpenFileLocked(w) /\ UNCHANGED <<enqVars, procVars, pipeVars, orderVars>>
  \/ \E w \in Workers : RequireAccession(w) /\ UNCHANGED <<enqVars, procVars, pipeVars, orderVars>>
  \/ \E w \in Workers : RequireType(w) /\ UNCHANGED <<enqVars, procVars, pipeVars, orderVars>>
  \/ \E w \in Workers : CheckExisting(w) /\ UNCHANGED <<enqVars, procVars, pipeVars, orderVars>>
  \/ \E w \in Workers : CreateEmbedding(w) /\ UNCHANGED <<enqVars, procVars, pipeVars, orderVars>>
  \/ \E w \in Workers : SetShape(w) /\ UNCHANGED <<enqVars, procVars, pipeVars, orderVars>>

SpecConcurrent == InitOfStore /\ [][NextConcurrent]_vars

(***************************************************************************)
(* The pipeline: enqueue, then process and store_entry per published batch *)
(***************************************************************************)
\* the ids of the records of a FASTA file
Ids(file) == { file[i].id : i \in 1..Len(file) }

\* input files whose accessions are unique
UniqueFastaFiles ==
  { f \in FastaFiles : Ids(f) \subseteq Accessions /\ Cardinality(Ids(f)) = Len(f) }

\* the requested model ids
RequestedTypes == { conf.types[m] : m \in 1..Len(conf.types) }

\* a run starts: enqueue is entered, the models of the requested types are
\* loaded with their batch sizes, no worker has a batch
InitOfPipeline ==
  /\ InitStore
  /\ InitEnqueue
  /\ conf.fantasia_input_fasta \in UniqueFastaFiles
  /\ task_data = <<>>
  /\ model_instances = RequestedTypes
  /\ batch_sizes = RequestedTypes
  /\ ppc = "idle"
  /\ resolved = FALSE
  /\ inferenceCalls = 0
  /\ embedding_records = <<>>
  /\ returned = None
  /\ praised = None
  /\ InitPipelineIdle
  /\ InitOrderIdle

\* the dispatcher hands a published batch, any of those not yet taken, to the
\* worker, which calls process on it
TakeBatch(k) ==
  /\ k \in 1..Len(published) /\ k \notin taken
  /\ ppc = "idle" /\ pc[1] = "idle"
  /\ taken' = taken \cup {k}
  /\ task_data' = published[k].batch
  /\ ppc' = "start"
  /\ resolved' = FALSE
  /\ inferenceCalls' = 0
  /\ embedding_records' = <<>>
  /\ returned' = None
  /\ praised' = None
  /\ UNCHANGED <<model_instances, batch_sizes, storeVars, enqVars, orderVars>>

\* lines 186-198 when inference succeeds for every sequence: one record per
\* item, labelled as the routine likes
EmbeddingTaskComplete ==
  /\ ppc = "infer"
  /\ BatchTypeId \in batch_sizes
  /\ inferenceCalls' = inferenceCalls + 1
  /\ \E recs \in { r \in RoutineOutputs(Len(task_data)) : Len(r) = Len(task_data) } :
       embedding_records' = recs
  /\ ppc' = "attach"
  /\ UNCHANGED <<task_data, model_instances, batch_sizes, resolved, returned, praised>>

\* the worker hands what process returned to store_entry
StoreReturned ==
  /\ ppc = "done"
  /\ StoreEntry(1, Value(returned))
  /\ ppc' = "idle"
  /\ UNCHANGED <<task_data, model_instances, batch_sizes, resolved, inferenceCalls,
                 embedding_records, returned, praised, enqVars, pipeVars, orderVars>>

\* a run in which nothing fails: no publish, inference or I/O error
NextPipeline ==
  \/ CheckRedundancy /\ UNCHANGED <<storeVars, procVars, pipeVars, orderVars>>
  \/ WhichCdHit /\ UNCHANGED <<storeVars, procVars, pipeVars, orderVars>>
  \/ RunCdHit /\ UNCHANGED <<storeVars, procVars, pipeVars, orderVars>>
  \/ ReadFasta /\ UNCHANGED <<storeVars, procVars, pipeVars, orderVars>>
  \/ PublishBatch /\ UNCHANGED <<storeVars, procVars, pipeVars, orderVars>>
  \/ \E k \in 1..Len(published) : TakeBatch(k)
  \/ CheckEmpty /\ UNCHANGED <<storeVars, enqVars, pipeVars, orderVars>>
  \/ CheckUniform /\ UNCHANGED <<storeVars, enqVars, pipeVars, orderVars>>
  \/ ResolveModel /\ UNCHANGED <<storeVars, enqVars, pipeVars, orderVars>>
  \/ EmbeddingTaskComplete /\ UNCHANGED <<storeVars, enqVars, pipeVars, orderVars>>
  \/ ReturnRecords /\ UNCHANGED <<storeVars, enqVars, pipeVars, orderVars>>
  \/ StoreReturned
  \/ CheckDir(1) /\ UNCHANGED <<enqVars, procVars, pipeVars, orderVars>>
  \/ MakeDirs(1) /\ UNCHANGED <<enqVars, procVars, pipeVars, orderVars>>
  \/ OpenFile(1) /\ UNCHANGED <<enqVars, procVars, pipeVars, orderVars>>
  \/ RequireAccession(1) /\ UNCHANGED <<enqVars, procVars, pipeVars, orderVars>>
  \/ RequireType(1) /\ UNCHANGED <<enqVars, procVars, pipeVars, orderVars>>
  \/ CheckExisting(1) /\ UNCHANGED <<enqVars, procVars, pipeVars, orderVars>>
  \/ CreateEmbedding(1) /\ UNCHANGED <<enqVars, procVars, pipeVars, orderVars>>
  \/ SetShape(1) /\ UNCHANGED <<enqVars, procVars, pipeVars, orderVars>>
  \/ Return(1) /\ UNCHANGED <<enqVars, procVars, pipeVars, orderVars>>

SpecPipeline == InitOfPipeline /\ [][NextPipeline]_vars

(***************************************************************************)
(* store_entry as a whole, applied to two record lists in both orders      *)
(***************************************************************************)
\* variant: an existing embedding is replaced by the record's
StoreRecordOverwrites(file, record) ==
  LET a == record.accession
      t == record.embedding_type_id
      f2 == RequireTypeGroup(RequireAccessionGroup(file, a), a, t)
      f3 == [f2 EXCEPT ![AccessionGroupName(a)][TypeGroupName(t)].datasets =
               ("embedding" :> record.embedding) @@ @]
  IN SetShapeAttr(f3, a, t, record.shape)

\* lines 233-247: one iteration of the loop, without I/O error
StoreRecord(file, record) ==
  LET a == record.accession
      t == record.embedding_type_id
      f2 == RequireTypeGroup(RequireAccessionGroup(file, a), a, t)
  IN IF HasEmbedding(f2, a, t) THEN f2
     ELSE SetShapeAttr(CreateDataset(f2, a, t, record.embedding), a, t, record.shape)

\* lines 231-247: the file after a complete store_entry(R)
RECURSIVE StoreRecords(_, _)
StoreRecords(file, R) ==
  IF R = <<>> THEN file
  ELSE StoreRecords(StoreRecord(file, Head(R)), Tail(R))

\* the file before the two calls: new, or left by an earlier complete call
StartFiles == { StoreRecords(EmptyFile, R) : R \in SeqsUpTo(Records, 1) }

\* two copies of one start file and two record lists
InitOfOrder ==
  /\ InitStore
  /\ InitEnqueueIdle
  /\ InitProcessIdle
  /\ InitPipelineIdle
  /\ listA \in RecordLists
  /\ listB \in RecordLists
  /\ fileAB \in StartFiles
  /\ fileBA = fileAB
  /\ opc = "start"

\* store_entry(A) on the first copy
StoreAFirst ==
  /\ opc = "start"
  /\ fileAB' = StoreRecords(fileAB, listA)
  /\ opc' = "a"
  /\ UNCHANGED <<listA, listB, fileBA, storeVars, enqVars, procVars, pipeVars>>

\* then store_entry(B) on the first copy
StoreBSecond ==
  /\ opc = "a"
  /\ fileAB' = StoreRecords(fileAB, listB)
  /\ opc' = "ab"
  /\ UNCHANGED <<listA, listB, fileBA, storeVars, enqVars, procVars, pipeVars>>

\* store_entry(B) on the second copy
StoreBFirst ==
  /\ opc = "ab"
  /\ fileBA' = StoreRecords(fileBA, listB)
  /\ opc' = "b"
  /\ UNCHANGED <<listA, listB, fileAB, storeVars, enqVars, procVars, pipeVars>>

\* then store_entry(A) on the second copy
StoreASecond ==
  /\ opc = "b"
  /\ fileBA' = StoreRecords(fileBA, listA)
  /\ opc' = "done"
  /\ UNCHANGED <<listA, listB, fileAB, storeVars, enqVars, procVars, pipeVars>>

NextOrder ==
  \/ StoreAFirst
  \/ StoreBSecond
  \/ StoreBFirst
  \/ StoreASecond

SpecOrder == InitOfOrder /\ [][NextOrder]_vars

(***************************************************************************)
(* Reading the published batches                                           *)
(***************************************************************************)
RECURSIVE ItemsPublishedFor(_, _)
\* the items of the batches of `queue` published under model_id, in order
ItemsPublishedFor(queue, model_id) ==
  IF queue = <<>> THEN <<>>
  ELSE (IF Head(queue).model_id = model_id THEN Head(queue).batch ELSE <<>>)
         \o ItemsPublishedFor(Tail(queue), model_id)

\* the item carries the accession and the residues of the sequence record
ItemOf(item, sequence) == item.accession = sequence.id /\ item.sequence = sequence.seq

\* the records of S of at most `limit` residues, in the order of S
AtMostLong(S, limit) == SelectSeq(S, LAMBDA r : Len(r.seq) <= limit)

CeilDiv(n, package) == (n + package - 1) \div package

\* the batches of `queue` published under model_id
BatchesPublishedFor(queue, model_id) == SelectSeq(queue, LAMBDA p : p.model_id = model_id)

\* C11: a failed publish ends enqueue with that error at once: every batch
\* before the failing one (all batches of the earlier model types, the earlier
\* batches of this one) is on the queue, the failing batch and the later ones
\* are not, and nothing is published or withdrawn after the failure.
C11_PublishFailureFatal ==
  [][/\ epc \in {"publish", "error"} =>
          /\ Len(published) <= Len(published')
          /\ SubSeq(published', 1, Len(published)) = published
     /\ epc = "error" => (published' = published /\ epc' = "error")
     /\ (epc' = "publish" \/ eraised' = Some("PublishError")) =>
          Len(published') = (mi' - 1) * Len(CurrentBatches') + (bi' - 1)
     /\ eraised' = Some("PublishError") => epc' = "error"]_vars

\* the publish of the second batch of the second model type failed
C11_Witness ==
  /\ epc = "error" /\ eraised = Some("PublishError")
  /\ mi = 2 /\ bi = 2 /\ Len(published) = 3

C4_LengthFilter ==
  (fastaRead /\ eraised # Some("FileNotFoundError")) =>
    sequences = IF conf.length_filter = None THEN inputRead
                ELSE AtMostLong(inputRead, Value(conf.length_filter))

\* C5: when process returns for a batch, it returns one record per item, and
\* the i-th record carries the accession of the i-th item and the
\* embedding_type_id of the batch.
C5_OneRecordPerItem ==
  (ppc = "done" /\ task_data # <<>>) =>
    /\ Len(Value(returned)) = Len(task_data)
    /\ \A i \in 1..Len(task_data) :
         /\ Value(returned)[i].accession = task_data[i].accession
         /\ Value(returned)[i].embedding_type_id = BatchTypeId

\* the batch holds two distinct embedding_type_id values
MixedTypes ==
  \E i, j \in 1..Len(task_data) :
    task_data[i].embedding_type_id # task_data[j].embedding_type_id

\* C6: for a batch of mixed embedding_type_id no model is resolved, the
\* inference routine is never called and nothing is returned, and process
\* ends by raising ValueError.
C6_MixedBatchFatal ==
  MixedTypes =>
    /\ ~resolved /\ inferenceCalls = 0 /\ returned = None
    /\ ppc \notin {"resolve", "infer", "attach", "done"}
    /\ ppc = "error" => praised = Some("ValueError")

\* process raised for a batch whose second item is of another type
C6_Witness ==
  /\ ppc = "error" /\ Len(task_data) = 2
  /\ task_data[1].embedding_type_id # task_data[2].embedding_type_id
  /\ praised = Some("ValueError")

\* C7: for an empty batch process raises nothing, resolves no model, never
\* calls the inference routine, and what it returns is the empty list.
C7_EmptyBatch ==
  task_data = <<>> =>
    /\ praised = None /\ ~resolved /\ inferenceCalls = 0
    /\ ppc \in {"start", "done"}
    /\ ppc = "done" => returned = Some(<<>>)

\* process returned for the empty batch
C7_Witness == ppc = "done" /\ task_data = <<>> /\ returned = Some(<<>>)

\* C14: a failure of the model lookup or of the inference routine ends
\* process with that exception and no result, a result is returned only when
\* nothing was raised, and the inference routine is called at most once.
C14_FailuresReraised ==
  /\ inferenceCalls <= 1
  /\ praised # None => (ppc = "error" /\ returned = None)
  /\ ppc = "error" => praised # None
  /\ returned # None => (ppc = "done" /\ praised = None)

\* the inference routine raised
C14_Witness ==
  /\ ppc = "error" /\ praised = Some("InferenceError")
  /\ inferenceCalls = 1 /\ resolved /\ returned = None

\* C15: every item of a published batch carries the model id the batch was
\* published under and the model name configured for it, so a batch is of one
\* type, and process never raises the mixed-type ValueError on such a batch.
C15_BatchesHomogeneous ==
  /\ \A k \in 1..Len(published) :
       \A i \in 1..Len(published[k].batch) :
         /\ published[k].batch[i].embedding_type_id = published[k].model_id
         /\ published[k].batch[i].model_name = ModelName(published[k].model_id)
  /\ praised # Some("ValueError")
  /\ ppc # "error"

\* process has passed its uniformity check on a published batch of two items
\* of the second requested model type
C15_Witness ==
  /\ ppc = "resolve" /\ Len(task_data) = 2 /\ Len(conf.types) = 2
  /\ BatchTypeId = conf.types[2]

\* C10: with a redundancy filter configured and no cd-hit binary in the PATH,
\* cd-hit is never invoked, the input is never read and nothing is published,
\* and enqueue ends by raising EnvironmentError.
C10_MissingBinaryFatal ==
  (Truthy(conf.redundancy_filter) /\ ~cdhitInPath) =>
    /\ ~cdhitInvoked /\ ~fastaRead /\ published = <<>>
    /\ epc \in {"start", "which", "error"}
    /\ epc = "error" => eraised = Some("EnvironmentError")

\* enqueue raised EnvironmentError although there was input to publish
C10_Witness ==
  /\ epc = "error" /\ eraised = Some("EnvironmentError")
  /\ Truthy(conf.redundancy_filter) /\ ~cdhitInPath
  /\ conf.fantasia_input_fasta # <<>> /\ conf.types # <<>>

(***************************************************************************)
(* Reading the store                                                       *)
(***************************************************************************)
\* the (accession, embedding_type_id) pairs whose type group exists
Leaves(file) ==
  { <<a, t>> \in Accessions \X Types :
      /\ AccessionGroupName(a) \in DOMAIN file
      /\ TypeGroupName(t) \in DOMAIN file[AccessionGroupName(a)] }

LeafHasEmbedding(file, k) ==
  k \in Leaves(file) /\ "embedding" \in DOMAIN TypeGroup(file, k[1], k[2]).datasets
LeafHasShape(file, k) ==
  k \in Leaves(file) /\ "shape" \in DOMAIN TypeGroup(file, k[1], k[2]).attrs
EmbeddingAt(file, k) == TypeGroup(file, k[1], k[2]).datasets["embedding"]
ShapeAt(file, k) == TypeGroup(file, k[1], k[2]).attrs["shape"]

Keys(R) == [i \in 1..Len(R) |-> Key(R[i])]

\* a leaf that holds an embedding keeps it, and keeps its shape if it has one;
\* groups are never removed
LeavesKept ==
  /\ DOMAIN h5file \subseteq DOMAIN h5file'
  /\ \A k \in Leaves(h5file) :
       /\ k \in Leaves(h5file')
       /\ LeafHasEmbedding(h5file, k) =>
            /\ LeafHasEmbedding(h5file', k)
            /\ EmbeddingAt(h5file', k) = EmbeddingAt(h5file, k)
       /\ LeafHasShape(h5file, k) =>
            /\ LeafHasShape(h5file', k)
            /\ ShapeAt(h5file', k) = ShapeAt(h5file, k)

\* an embedding or shape that appears under a key is the one of the record the
\* writing worker is at, and that key held no embedding before
NewLeavesFromRecord ==
  \A k \in Leaves(h5file') :
    /\ (LeafHasEmbedding(h5file', k) /\ ~LeafHasEmbedding(h5file, k)) =>
         \E w \in Workers : /\ pc[w] = "create" /\ Key(Record(w)) = k
                            /\ EmbeddingAt(h5file', k) = Record(w).embedding
    /\ (LeafHasShape(h5file', k) /\ ~LeafHasShape(h5file, k)) =>
         \E w \in Workers : /\ pc[w] = "attrs" /\ Key(Record(w)) = k
                            /\ ShapeAt(h5file', k) = Record(w).shape
                            /\ EmbeddingAt(h5file', k) = Record(w).embedding

\* C1: over any sequence of store_entry calls (lists that repeat a key and
\* calls cut short by an I/O error included) no group is removed, a leaf that
\* holds an embedding keeps that embedding and a shape once written is never
\* edited, and what appears under a key comes from the record being stored
\* while the key held no embedding: the first record stored for the key stays.
C1_AppendOnly == [][LeavesKept /\ NewLeavesFromRecord]_vars

\* a call has skipped a record whose tensor differs from the one the leaf holds
C1_Witness ==
  /\ pc[1] = "done" /\ skipped[1] # <<>>
  /\ \E i \in 1..Len(results[1]) :
       /\ LeafHasShape(h5file, Key(results[1][i]))
       /\ EmbeddingAt(h5file, Key(results[1][i])) # results[1][i].embedding

\* C2: a store_entry call that repeats the list of the call that just
\* returned never changes the file, stores nothing, and when it returns has
\* logged a skip for every record of the list, in order.
C2_Idempotent ==
  [][again'[1] =>
       /\ h5file' = h5file
       /\ stored'[1] = <<>>
       /\ (pc'[1] = "done" => skipped'[1] = Keys(results'[1]))]_vars

\* the repeated call returned, for a list that holds one key twice
C2_Witness ==
  /\ again[1] /\ pc[1] = "done" /\ Len(results[1]) >= 2
  /\ Key(results[1][1]) = Key(results[1][2])
  /\ results[1][1].embedding # results[1][2].embedding

\* the first record of R stored under key k
FirstWithKey(R, k) == R[CHOOSE i \in 1..Len(R) :
                          Key(R[i]) = k /\ \A j \in 1..(i - 1) : Key(R[j]) # k]

\* C12: when a store_entry call returns, every key of its list holds an
\* embedding, and every key the call stored (a second type of an accession
\* that already holds another type included) holds the embedding and the
\* shape of the first record of the list with that key.
C12_TypesIndependent ==
  pc[1] = "done" =>
    /\ \A i \in 1..Len(results[1]) : LeafHasEmbedding(h5file, Key(results[1][i]))
    /\ \A n \in 1..Len(stored[1]) :
         /\ LeafHasShape(h5file, stored[1][n])
         /\ EmbeddingAt(h5file, stored[1][n])
              = FirstWithKey(results[1], stored[1][n]).embedding
         /\ ShapeAt(h5file, stored[1][n]) = FirstWithKey(results[1], stored[1][n]).shape

\* a call stored type 2 of P1 while type 1 of P1, stored by an earlier call
\* with another tensor, is still there
C12_Witness ==
  /\ pc[1] = "done" /\ stored[1] = << <<"P1", 2>> >> /\ skipped[1] = <<>>
  /\ LeafHasShape(h5file, <<"P1", 1>>)
  /\ EmbeddingAt(h5file, <<"P1", 1>>) = "e1"
  /\ EmbeddingAt(h5file, <<"P1", 2>>) = "e2"

\* C16: between the steps of store_entry's writes (the call returned, raised,
\* or has not started), every leaf that holds an embedding holds its shape.
C16_ShapeWithEmbedding ==
  pc[1] \in {"idle", "done", "error"} =>
    \A k \in Leaves(h5file) : LeafHasEmbedding(h5file, k) => LeafHasShape(h5file, k)

\* C8: with several workers in store_entry, no worker is between its check
\* of a key and the end of its write of that key while another worker checks
\* or writes the same key, and no worker's call fails.
C8_Serialized ==
  /\ \A w \in Workers : pc[w] # "error"
  /\ \A w1, w2 \in Workers :
       (w1 # w2 /\ pc[w1] \in {"create", "attrs"} /\ pc[w2] \in {"check", "create", "attrs"})
         => Key(Record(w1)) # Key(Record(w2))

\* C9: the step in which a call fails leaves the file as it was, at the record
\* it was handling (every earlier record of the call was stored or skipped,
\* no later one was touched), and the failed call changes the file no more.
C9_AbortKeepsWritten ==
  [][/\ (pc[1] # "error" /\ pc'[1] = "error") =>
          /\ h5file' = h5file
          /\ idx'[1] = idx[1]
          /\ Len(stored'[1]) + Len(skipped'[1]) = idx'[1] - 1
     /\ (pc[1] = "error") => h5file' = h5file]_vars

\* a call failed at its second record after storing its first
C9_Witness ==
  /\ pc[1] = "error" /\ idx[1] = 2 /\ Len(stored[1]) = 1
  /\ LeafHasShape(h5file, stored[1][1])

\* every published batch has been processed and stored
RunComplete ==
  /\ epc = "done"
  /\ taken = 1..Len(published)
  /\ ppc = "idle"
  /\ pc[1] = "idle"

\* C17: when enqueue has returned and every published batch has been
\* processed and its result stored, the leaves of the store are exactly the
\* pairs (accession kept by the filters, requested model type), each with
\* its embedding and shape; an accession the length filter dropped has none.
C17_EndToEnd ==
  RunComplete =>
    /\ Leaves(h5file) = { <<sequences[j].id, t>> : j \in 1..Len(sequences), t \in RequestedTypes }
    /\ \A k \in Leaves(h5file) : LeafHasEmbedding(h5file, k) /\ LeafHasShape(h5file, k)
    /\ \A i \in 1..Len(inputRead) :
         (\A j \in 1..Len(sequences) : sequences[j] # inputRead[i]) =>
           AccessionGroupName(inputRead[i].id) \notin DOMAIN h5file

\* a complete run over two records, one dropped by the length filter, two
\* model types: two leaves for the kept accession
C17_Witness ==
  /\ RunComplete
  /\ Len(inputRead) = 2 /\ Len(sequences) = 1 /\ Len(conf.types) = 2
  /\ Cardinality(Leaves(h5file)) = 2

\* the embedding and shape of the first record of R under key k
FirstContent(R, k) ==
  LET r == FirstWithKey(R, k) IN <<r.embedding, r.shape>>

\* the keys found in both lists
CommonKeys == { Keys(listA)[i] : i \in 1..Len(listA) } \cap { Keys(listB)[i] : i \in 1..Len(listB) }

\* the two lists agree on what they would write under every key they share
ListsAgree == \A k \in CommonKeys : FirstContent(listA, k) = FirstContent(listB, k)

\* C18 as stated: for any two record lists A and B, store_entry(A) then
\* store_entry(B) leaves the same file as store_entry(B) then store_entry(A).
C18_OrderIndependent == opc = "done" => fileAB = fileBA

\* C18 amended: the two orders leave the same file when, for every key found
\* in both lists, the first record of A and the first record of B under that
\* key carry the same embedding and shape (in particular when the lists share
\* no key, as the batches of one run over unique accessions).
C18_OrderIndependentWhenListsAgree == (opc = "done" /\ ListsAgree) => fileAB = fileBA

\* both orders have run on two lists that share a key and agree on it, one of
\* them holding a second, different record under that key
C18_Witness ==
  /\ opc = "done"
  /\ ListsAgree
  /\ CommonKeys # {}
  /\ \E i \in 1..Len(listA) :
       /\ Keys(listA)[i] \in CommonKeys
       /\ listA[i] # FirstWithKey(listA, Keys(listA)[i])
  /\ fileAB # EmptyFile

====
